---- MODULE Spec2Model ----
(***************************************************************************)
(* po2lmo: conversion of gettext PO text into the LMO binary lookup table. *)
(*                                                                         *)
(* The module models the four functions of src/po2lmo.py:                  *)
(*   sfh_hash        the 32-bit SuperFastHash port                         *)
(*   extract_string  the quoted-string scanner                             *)
(*   parse_po_file   the block/line parser                                 *)
(*   write_lmo_file  the binary writer                                     *)
(*                                                                         *)
(* A Python str is a sequence of code points, a bytes object a sequence of *)
(* numbers 0..255.  A Python int that takes part in the hash arithmetic is *)
(* a tuple of four 16-bit limbs, least significant first, in 64-bit two's  *)
(* complement: no intermediate value of sfh_hash needs more than 58 bits,  *)
(* so the representation is exact for the unbounded integers of Python.    *)
(***************************************************************************)
EXTENDS Integers, Sequences, FiniteSets, TLC

VARIABLES
    pc,           \* position of the call in progress
    data,         \* sfh_hash: the argument
    hash_val,     \* sfh_hash: the value returned
    line,         \* extract_string: the argument
    extracted,    \* extract_string: the value returned
    content,      \* parse_po_file: the text read from the file
    blocks,       \* parse_po_file: blocks not yet processed
    lines,        \* parse_po_file: lines of the current block not yet scanned
    msgid,        \* parse_po_file: accumulated msgid of the current block
    msgstr,       \* parse_po_file: accumulated msgstr of the current block
    in_msgid,     \* parse_po_file: continuation lines go to msgid
    in_msgstr,    \* parse_po_file: continuation lines go to msgstr
    entries,      \* parse_po_file: the result; write_lmo_file: the argument
    disk,         \* the file at output_filename: [exists, bytes, synced]
    todo,         \* write_lmo_file: pairs of the first pass not yet processed
    lmo_entries,  \* write_lmo_file: the LMOEntry list
    offset,       \* write_lmo_file: the running blob offset
    trace         \* write_lmo_file: file operations performed, in order

vars == <<pc, data, hash_val, line, extracted, content, blocks, lines, msgid,
          msgstr, in_msgid, in_msgstr, entries, disk, todo, lmo_entries,
          offset, trace>>

----------------------------------------------------------------------------
(* Python integers of the hash arithmetic *)

LimbBase == 2^16

Limbs == 1..4

\* The Python int n (|n| < 2^31) as limbs.
PyInt(n) ==
    LET s == IF n < 0 THEN LimbBase - 1 ELSE 0
    IN  <<n % LimbBase, (n \div LimbBase) % LimbBase, s, s>>

LimbAt(a, j) ==
    IF j < 1 THEN 0
    ELSE IF j > 4 THEN (IF a[4] >= LimbBase \div 2 THEN LimbBase - 1 ELSE 0)
    ELSE a[j]

\* a + b
PyAdd(a, b) ==
    LET s1 == a[1] + b[1]
        s2 == a[2] + b[2] + (s1 \div LimbBase)
        s3 == a[3] + b[3] + (s2 \div LimbBase)
        s4 == a[4] + b[4] + (s3 \div LimbBase)
    IN  <<s1 % LimbBase, s2 % LimbBase, s3 % LimbBase, s4 % LimbBase>>

RECURSIVE LimbXor(_, _, _)
LimbXor(x, y, n) ==
    IF n = 0 THEN 0
    ELSE ((x + y) % 2) + 2 * LimbXor(x \div 2, y \div 2, n - 1)

RECURSIVE LimbOr(_, _, _)
LimbOr(x, y, n) ==
    IF n = 0 THEN 0
    ELSE (IF (x % 2) + (y % 2) > 0 THEN 1 ELSE 0)
         + 2 * LimbOr(x \div 2, y \div 2, n - 1)

\* a ^ b
PyXor(a, b) == [j \in Limbs |-> LimbXor(a[j], b[j], 16)]

\* a | b
PyOr(a, b) == [j \in Limbs |-> LimbOr(a[j], b[j], 16)]

\* a << k
PyShl(a, k) ==
    LET q == k \div 16
        r == k % 16
    IN  [j \in Limbs |->
            (((LimbAt(a, j - q) % 2^(16 - r)) * 2^r)
             + (LimbAt(a, j - q - 1) \div 2^(16 - r))) % LimbBase]

\* a >> k (arithmetic, as Python's)
PyShr(a, k) ==
    LET q == k \div 16
        r == k % 16
    IN  [j \in Limbs |->
            ((LimbAt(a, j + q) \div 2^r)
             + ((LimbAt(a, j + q + 1) % 2^r) * 2^(16 - r))) % LimbBase]

\* a & 0xFFFFFFFF
Mask32(a) == <<a[1], a[2], 0, 0>>

\* a < b for values in 0..2^32-1
U32Less(a, b) == a[2] < b[2] \/ (a[2] = b[2] /\ a[1] < b[1])

----------------------------------------------------------------------------
(* str.encode("utf-8") *)

EncodeChar(c) ==
    IF c < 128 THEN <<c>>
    ELSE IF c < 2048 THEN <<192 + (c \div 64), 128 + (c % 64)>>
    ELSE IF c < 65536 THEN
        <<224 + (c \div 4096), 128 + ((c \div 64) % 64), 128 + (c % 64)>>
    ELSE
        <<240 + (c \div 262144), 128 + ((c \div 4096) % 64),
          128 + ((c \div 64) % 64), 128 + (c % 64)>>

RECURSIVE encode_utf8(_)
encode_utf8(s) ==
    IF s = <<>> THEN <<>> ELSE EncodeChar(Head(s)) \o encode_utf8(Tail(s))

----------------------------------------------------------------------------
(* sfh_hash *)

\* The last byte of a 1-byte or 3-byte remainder, read as a C signed char.
\* (variant: the byte taken as it is, without sign extension)
signed_byte_unsigned(b) == b

signed_byte(b) == IF b >= 128 THEN b - 256 ELSE b

\* data_bytes[i] | (data_bytes[i + 1] << 8), i counted from 0
get16(d, i) == PyOr(PyInt(d[i + 1]), PyShl(PyInt(d[i + 2]), 8))

\* The main loop: four bytes at a time.  hash_val += val1 and tmp are left
\* unmasked, as in the source.
RECURSIVE sfh_main_loop(_, _, _, _)
sfh_main_loop(d, h, i, length) ==
    IF length >= 4 THEN
        LET val1 == get16(d, i)
            val2 == get16(d, i + 2)
            h1 == PyAdd(h, val1)
            tmp == PyXor(PyShl(val2, 11), h1)
            h2 == Mask32(PyXor(PyShl(h1, 16), tmp))
            h3 == Mask32(PyAdd(h2, PyShr(h2, 11)))
        IN  sfh_main_loop(d, h3, i + 4, length - 4)
    ELSE [h |-> h, i |-> i, length |-> length]

sfh_remainder(d, h, i, length) ==
    IF length = 3 THEN
        LET h1 == Mask32(PyAdd(h, get16(d, i)))
            h2 == Mask32(PyXor(h1, PyShl(h1, 16)))
            third_byte == signed_byte(d[i + 3])
            h3 == Mask32(PyXor(h2, Mask32(PyShl(PyInt(third_byte), 18))))
        IN  Mask32(PyAdd(h3, PyShr(h3, 11)))
    ELSE IF length = 2 THEN
        LET h1 == Mask32(PyAdd(h, get16(d, i)))
            h2 == Mask32(PyXor(h1, PyShl(h1, 11)))
        IN  Mask32(PyAdd(h2, PyShr(h2, 17)))
    ELSE IF length = 1 THEN
        LET byte_val == signed_byte(d[i + 1])
            h1 == Mask32(PyAdd(h, PyInt(byte_val)))
            h2 == Mask32(PyXor(h1, PyShl(h1, 10)))
        IN  Mask32(PyAdd(h2, PyShr(h2, 1)))
    ELSE h

sfh_avalanche(h) ==
    LET h1 == Mask32(PyXor(h, PyShl(h, 3)))
        h2 == Mask32(PyAdd(h1, PyShr(h1, 5)))
        h3 == Mask32(PyXor(h2, PyShl(h2, 4)))
        h4 == Mask32(PyAdd(h3, PyShr(h3, 17)))
        h5 == Mask32(PyXor(h4, PyShl(h4, 25)))
        h6 == Mask32(PyAdd(h5, PyShr(h5, 6)))
    IN  Mask32(h6)

sfh_hash(s) ==
    IF s = <<>> THEN PyInt(0)
    ELSE
        LET data_bytes == encode_utf8(s)
            m == sfh_main_loop(data_bytes, PyInt(Len(data_bytes)), 0,
                               Len(data_bytes))
        IN  sfh_avalanche(sfh_remainder(data_bytes, m.h, m.i, m.length))

----------------------------------------------------------------------------
(* Characters *)

QUOTE == 34

BACKSLASH == 92

HASH == 35

SPACE == 32

LF == 10

TAB == 9

CR == 13

CH_n == 110

CH_t == 116

CH_r == 114

\* "msgid " and "msgstr "
KW_MSGID == <<109, 115, 103, 105, 100, 32>>

KW_MSGSTR == <<109, 115, 103, 115, 116, 114, 32>>

\* The characters str.strip() removes and \s matches, among those of the model.
IsSpace(c) == c \in {9, 10, 11, 12, 13, 32}

\* Optional[str]
None == [some |-> FALSE, val |-> <<>>]

Some(s) == [some |-> TRUE, val |-> s]

----------------------------------------------------------------------------
(* extract_string *)

\* line.find('"'), counted from 0; -1 when there is none
RECURSIVE find_quote(_, _)
find_quote(ln, i) ==
    IF i >= Len(ln) THEN -1
    ELSE IF ln[i + 1] = QUOTE THEN i
    ELSE find_quote(ln, i + 1)

\* the character an escaped char stands for
unescape(char) ==
    IF char = QUOTE \/ char = BACKSLASH THEN char
    ELSE IF char = CH_n THEN LF
    ELSE IF char = CH_t THEN TAB
    ELSE IF char = CH_r THEN CR
    ELSE char

\* the while loop; i counted from 0
RECURSIVE extract_loop(_, _, _, _)
extract_loop(ln, i, result, escape) ==
    IF i >= Len(ln) THEN [result |-> result, escape |-> escape]
    ELSE
        LET char == ln[i + 1]
        IN  IF escape THEN
                extract_loop(ln, i + 1, Append(result, unescape(char)), FALSE)
            ELSE IF char = BACKSLASH THEN
                extract_loop(ln, i + 1, result, TRUE)
            ELSE IF char = QUOTE THEN
                [result |-> result, escape |-> escape]
            ELSE
                extract_loop(ln, i + 1, Append(result, char), FALSE)

\* the return statement
\* (variant: a result is returned also while an escape is pending)
extract_return_lenient(result, escape) == Some(result)

extract_return(result, escape) == IF ~escape THEN Some(result) ELSE None

extract_string(ln) ==
    LET quote_start == find_quote(ln, 0)
    IN  IF quote_start = -1 THEN None
        ELSE
            LET r == extract_loop(ln, quote_start + 1, <<>>, FALSE)
            IN  extract_return(r.result, r.escape)

----------------------------------------------------------------------------
(* parse_po_file: text helpers *)

\* str.strip()
RECURSIVE lstrip(_)
lstrip(s) ==
    IF s # <<>> /\ IsSpace(Head(s)) THEN lstrip(Tail(s)) ELSE s

RECURSIVE rstrip(_)
rstrip(s) ==
    IF s # <<>> /\ IsSpace(s[Len(s)]) THEN rstrip(SubSeq(s, 1, Len(s) - 1))
    ELSE s

strip(s) == rstrip(lstrip(s))

\* str.startswith(prefix)
startswith(s, prefix) ==
    Len(s) >= Len(prefix) /\ SubSeq(s, 1, Len(prefix)) = prefix

\* str.split("\n")
RECURSIVE split_lines(_, _)
split_lines(s, cur) ==
    IF s = <<>> THEN <<cur>>
    ELSE IF Head(s) = LF THEN <<cur>> \o split_lines(Tail(s), <<>>)
    ELSE split_lines(Tail(s), Append(cur, Head(s)))

\* A match of \n\s*\n starting at position p (1-based, s[p] = "\n"): \s* is
\* greedy, so the match ends at the last "\n" of the whitespace run after p.
\* The position of that "\n", or 0 when there is no match at p.
RECURSIVE match_end(_, _, _)
match_end(s, q, last) ==
    IF q > Len(s) \/ ~IsSpace(s[q]) THEN last
    ELSE match_end(s, q + 1, IF s[q] = LF THEN q ELSE last)

\* re.split(r"\n\s*\n", content)
RECURSIVE re_split(_, _, _)
re_split(s, p, start) ==
    IF p > Len(s) THEN <<SubSeq(s, start, Len(s))>>
    ELSE IF s[p] = LF /\ match_end(s, p + 1, 0) > 0 THEN
        LET e == match_end(s, p + 1, 0)
        IN  <<SubSeq(s, start, p - 1)>> \o re_split(s, e + 1, e + 1)
    ELSE re_split(s, p + 1, start)

\* the test that keeps a block's pair
\* (variant: a block is kept when either field is non-empty)
keep_entry_either(id, str) == id # <<>> \/ str # <<>>

keep_entry(id, str) == id # <<>> /\ str # <<>>

----------------------------------------------------------------------------
(* write_lmo_file: helpers *)

\* class LMOEntry
\* (variant: offset and length exchanged)
LMOEntry_swapped(key_id, val_id, off, length) ==
    [key_id |-> key_id, val_id |-> val_id, offset |-> length, length |-> off]

LMOEntry(key_id, val_id, off, length) ==
    [key_id |-> key_id, val_id |-> val_id, offset |-> off, length |-> length]

\* (length + 3) & ~3
\* (variant: no rounding)
padded_length_unpadded(length) == length

padded_length(length) == (length + 3) - ((length + 3) % 4)

\* if key_id == val_id: continue
\* (variant: no pair is skipped)
skip_pair_never(key_id, val_id) == FALSE

skip_pair(key_id, val_id) == key_id = val_id

\* b"\x00" * n
zeros(n) == [j \in 1..n |-> 0]

\* struct.pack(">I", x) for x in 0..2^32-1
pack_u32(x) == <<x[2] \div 256, x[2] % 256, x[1] \div 256, x[1] % 256>>

\* the duplicate scan: some entry's key_id is already in key_to_entry
has_duplicate(es) ==
    \E j \in 1..Len(es) : \E k \in 1..(j - 1) : es[k].key_id = es[j].key_id

\* list.sort(key=lambda x: x.key_id): ascending and stable
RECURSIVE sort_insert(_, _)
sort_insert(sorted, e) ==
    IF sorted = <<>> THEN <<e>>
    ELSE IF U32Less(e.key_id, sorted[Len(sorted)].key_id) THEN
        Append(sort_insert(SubSeq(sorted, 1, Len(sorted) - 1), e),
               sorted[Len(sorted)])
    ELSE Append(sorted, e)

RECURSIVE sort_fold(_, _)
sort_fold(es, sorted) ==
    IF es = <<>> THEN sorted
    ELSE sort_fold(Tail(es), sort_insert(sorted, Head(es)))

\* (variant: the list left in encounter order)
sort_by_key_unsorted(es) == es

sort_by_key(es) == sort_fold(es, <<>>)

\* the four fields of every entry, in list order
RECURSIVE index_bytes(_)
index_bytes(es) ==
    IF es = <<>> THEN <<>>
    ELSE pack_u32(Head(es).key_id) \o pack_u32(Head(es).val_id)
         \o pack_u32(PyInt(Head(es).offset)) \o pack_u32(PyInt(Head(es).length))
         \o index_bytes(Tail(es))

NoFile == [exists |-> FALSE, bytes |-> <<>>]

----------------------------------------------------------------------------
(* Inputs *)

MaxHashLen == 3

MaxLineLen == 4

MaxPieces == 3

MaxPairs == 3

SeqsUpTo(S, n) == UNION {[1..k -> S] : k \in 0..n}

\* "a", e-acute, a CJK character, an emoji: 1, 2, 3 and 4 bytes of UTF-8
HashAlphabet == {97, 233, 20013, 128512}

\* "ddddclswzzzz": hash_val + val1 exceeds 2^32 - 1 in the third round
CarryInput == <<100, 100, 100, 100, 99, 108, 115, 119, 122, 122, 122, 122>>

HashInputs == SeqsUpTo(HashAlphabet, MaxHashLen) \cup {CarryInput}

ExtractAlphabet == {QUOTE, BACKSLASH, CH_n, CH_t, CH_r, 97}

ExtractInputs == SeqsUpTo(ExtractAlphabet, MaxLineLen)

Quoted(s) == <<QUOTE>> \o s \o <<QUOTE>>

PoPieces ==
    { <<>>,                                          \* an empty line
      <<SPACE>>,                                     \* a line of one space
      <<HASH, QUOTE, 120, QUOTE>>,                   \* #"x"
      KW_MSGID \o Quoted(<<97>>),                    \* msgid "a"
      KW_MSGSTR \o Quoted(<<98>>),                   \* msgstr "b"
      Quoted(<<99>>),                                \* "c"
      KW_MSGID \o <<QUOTE, 122, BACKSLASH>>,         \* msgid "z\
      KW_MSGSTR \o Quoted(<<>>),                     \* msgstr ""
      KW_MSGID \o Quoted(<<100>>) \o <<LF, SPACE>>
          \o KW_MSGSTR \o Quoted(<<BACKSLASH, QUOTE>>) \o <<SPACE>>,
                                                     \* msgid "d" / msgstr "\""
      KW_MSGID \o Quoted(<<102>>) \o <<LF>>
          \o KW_MSGSTR \o Quoted(<<103>>) }          \* msgid "f" / msgstr "g"

RECURSIVE join_lines(_)
join_lines(ps) ==
    IF ps = <<>> THEN <<>>
    ELSE IF Len(ps) = 1 THEN ps[1]
    ELSE ps[1] \o <<LF>> \o join_lines(Tail(ps))

PoContents == {join_lines(ps) : ps \in SeqsUpTo(PoPieces, MaxPieces)}

\* "bocs" and "krgc" have the same hash, 0x90d5288b
S_bocs == <<98, 111, 99, 115>>

S_krgc == <<107, 114, 103, 99>>

PairUniverse ==
    { <<S_bocs, <<233>>>>,            \* kept, 2 bytes
      <<S_krgc, <<97, 98, 99, 100, 101>>>>,  \* kept, 5 bytes, key of "bocs"
      <<<<97>>, <<>>>>,               \* kept, 0 bytes
      <<<<97>>, <<97>>>>,             \* skipped: msgid = msgstr
      <<S_bocs, S_krgc>>,             \* skipped: equal hashes
      <<<<20013>>, S_bocs>> }         \* kept, 4 bytes

PairLists == SeqsUpTo(PairUniverse, MaxPairs)

\* a file left at output_filename by an earlier run
OldFile == [exists |-> TRUE, bytes |-> <<79, 76, 68>>]

----------------------------------------------------------------------------
(* Initial states: one call of one function *)

IdleHash == data = <<>> /\ hash_val = PyInt(0)

IdleExtract == line = <<>> /\ extracted = None

IdleParse ==
    /\ content = <<>> /\ blocks = <<>> /\ lines = <<>>
    /\ msgid = <<>> /\ msgstr = <<>> /\ in_msgid = FALSE /\ in_msgstr = FALSE

IdleWrite ==
    /\ disk = NoFile /\ todo = <<>> /\ lmo_entries = <<>>
    /\ offset = 0 /\ trace = <<>>

InitHash ==
    /\ pc = "hash_call"
    /\ data \in HashInputs /\ hash_val = PyInt(0)
    /\ IdleExtract /\ IdleParse /\ entries = <<>> /\ IdleWrite

InitExtract ==
    /\ pc = "extract_call"
    /\ line \in ExtractInputs /\ extracted = None
    /\ IdleHash /\ IdleParse /\ entries = <<>> /\ IdleWrite

InitParse ==
    /\ pc = "parse_call"
    /\ content \in PoContents
    /\ blocks = <<>> /\ lines = <<>>
    /\ msgid = <<>> /\ msgstr = <<>> /\ in_msgid = FALSE /\ in_msgstr = FALSE
    /\ entries = <<>>
    /\ IdleHash /\ IdleExtract /\ IdleWrite

InitWrite ==
    /\ pc = "write_call"
    /\ entries \in PairLists
    /\ disk \in {NoFile, OldFile}
    /\ todo = <<>> /\ lmo_entries = <<>> /\ offset = 0 /\ trace = <<>>
    /\ IdleHash /\ IdleExtract /\ IdleParse

Init == InitHash \/ InitExtract \/ InitParse \/ InitWrite

hash_vars == <<data, hash_val>>

extract_vars == <<line, extracted>>

parse_vars == <<content, blocks, lines, msgid, msgstr, in_msgid, in_msgstr>>

write_vars == <<disk, todo, lmo_entries, offset, trace>>

----------------------------------------------------------------------------
(* sfh_hash and extract_string: the call *)

HashCall ==
    /\ pc = "hash_call"
    /\ hash_val' = sfh_hash(data)
    /\ pc' = "hash_done"
    /\ UNCHANGED <<data, extract_vars, parse_vars, entries, write_vars>>

ExtractCall ==
    /\ pc = "extract_call"
    /\ extracted' = extract_string(line)
    /\ pc' = "extract_done"
    /\ UNCHANGED <<line, hash_vars, parse_vars, entries, write_vars>>

----------------------------------------------------------------------------
(* parse_po_file *)

\* blocks = re.split(r"\n\s*\n", content)
ParseSplit ==
    /\ pc = "parse_call"
    /\ blocks' = re_split(content, 1, 1)
    /\ entries' = <<>>
    /\ pc' = "parse_block"
    /\ UNCHANGED <<content, lines, msgid, msgstr, in_msgid, in_msgstr,
                   hash_vars, extract_vars, write_vars>>

\* for block in blocks: lines = block.strip().split("\n"), fields reset
ParseBlock ==
    /\ pc = "parse_block"
    /\ blocks # <<>>
    /\ lines' = split_lines(strip(Head(blocks)), <<>>)
    /\ blocks' = Tail(blocks)
    /\ msgid' = <<>> /\ msgstr' = <<>>
    /\ in_msgid' = FALSE /\ in_msgstr' = FALSE
    /\ pc' = "parse_line"
    /\ UNCHANGED <<content, entries, hash_vars, extract_vars, write_vars>>

\* the line the loop body looks at
CurLine == strip(Head(lines))

LineStep ==
    /\ pc = "parse_line"
    /\ lines # <<>>
    /\ lines' = Tail(lines)
    /\ pc' = "parse_line"
    /\ UNCHANGED <<content, blocks, entries, hash_vars, extract_vars,
                   write_vars>>

\* if line.startswith("#") or not line: continue
ParseSkipLine ==
    /\ LineStep
    /\ (startswith(CurLine, <<HASH>>) \/ CurLine = <<>>)
    /\ UNCHANGED <<msgid, msgstr, in_msgid, in_msgstr>>

\* if line.startswith("msgid "):
ParseMsgidLine ==
    /\ LineStep
    /\ ~(startswith(CurLine, <<HASH>>) \/ CurLine = <<>>)
    /\ startswith(CurLine, KW_MSGID)
    /\ in_msgid' = TRUE /\ in_msgstr' = FALSE
    /\ LET ex == extract_string(SubSeq(CurLine, 7, Len(CurLine)))
       IN  msgid' = IF ex.some THEN ex.val ELSE msgid
    /\ UNCHANGED msgstr

\* elif line.startswith("msgstr "):
ParseMsgstrLine ==
    /\ LineStep
    /\ ~(startswith(CurLine, <<HASH>>) \/ CurLine = <<>>)
    /\ ~startswith(CurLine, KW_MSGID)
    /\ startswith(CurLine, KW_MSGSTR)
    /\ in_msgid' = FALSE /\ in_msgstr' = TRUE
    /\ LET ex == extract_string(SubSeq(CurLine, 8, Len(CurLine)))
       IN  msgstr' = IF ex.some THEN ex.val ELSE msgstr
    /\ UNCHANGED msgid

\* elif line.startswith('"') and (in_msgid or in_msgstr):
ParseContinuationLine ==
    /\ LineStep
    /\ ~(startswith(CurLine, <<HASH>>) \/ CurLine = <<>>)
    /\ ~startswith(CurLine, KW_MSGID)
    /\ ~startswith(CurLine, KW_MSGSTR)
    /\ startswith(CurLine, <<QUOTE>>) /\ (in_msgid \/ in_msgstr)
    /\ LET ex == extract_string(CurLine)
       IN  /\ msgid' = IF ex.some /\ in_msgid THEN msgid \o ex.val ELSE msgid
           /\ msgstr' = IF ex.some /\ ~in_msgid /\ in_msgstr
                        THEN msgstr \o ex.val ELSE msgstr
    /\ UNCHANGED <<in_msgid, in_msgstr>>

\* no branch of the loop body applies
ParseOtherLine ==
    /\ LineStep
    /\ ~(startswith(CurLine, <<HASH>>) \/ CurLine = <<>>)
    /\ ~startswith(CurLine, KW_MSGID)
    /\ ~startswith(CurLine, KW_MSGSTR)
    /\ ~(startswith(CurLine, <<QUOTE>>) /\ (in_msgid \/ in_msgstr))
    /\ UNCHANGED <<msgid, msgstr, in_msgid, in_msgstr>>

\* if msgid and msgstr: entries.append((msgid, msgstr))
ParseEndBlock ==
    /\ pc = "parse_line"
    /\ lines = <<>>
    /\ entries' = IF keep_entry(msgid, msgstr)
                  THEN Append(entries, <<msgid, msgstr>>) ELSE entries
    /\ pc' = "parse_block"
    /\ UNCHANGED <<content, blocks, lines, msgid, msgstr, in_msgid, in_msgstr,
                   hash_vars, extract_vars, write_vars>>

\* return entries
ParseReturn ==
    /\ pc = "parse_block"
    /\ blocks = <<>>
    /\ pc' = "parse_done"
    /\ UNCHANGED <<parse_vars, entries, hash_vars, extract_vars, write_vars>>

----------------------------------------------------------------------------
(* write_lmo_file *)

WriteIdle == UNCHANGED <<entries, hash_vars, extract_vars, parse_vars>>

\* if not entries: remove a stale file and return
WriteNoEntries ==
    /\ pc = "write_call"
    /\ entries = <<>>
    /\ disk' = NoFile
    /\ trace' = IF disk.exists THEN <<"unlink">> ELSE <<>>
    /\ pc' = "write_returned"
    /\ UNCHANGED <<todo, lmo_entries, offset>>
    /\ WriteIdle

\* with open(output_filename, "wb") as f: the file is created or truncated
WriteOpen ==
    /\ pc = "write_call"
    /\ entries # <<>>
    /\ disk' = [exists |-> TRUE, bytes |-> <<>>]
    /\ trace' = <<"open">>
    /\ todo' = entries
    /\ lmo_entries' = <<>>
    /\ offset' = 0
    /\ pc' = "first_pass"
    /\ WriteIdle

\* first pass, a pair whose hashes are equal: continue
FirstPassSkip ==
    /\ pc = "first_pass"
    /\ todo # <<>>
    /\ skip_pair(sfh_hash(Head(todo)[1]), sfh_hash(Head(todo)[2]))
    /\ todo' = Tail(todo)
    /\ UNCHANGED <<pc, disk, trace, lmo_entries, offset>>
    /\ WriteIdle

\* first pass, any other pair: the padded string is written, the entry kept
FirstPassWrite ==
    /\ pc = "first_pass"
    /\ todo # <<>>
    /\ LET key_id == sfh_hash(Head(todo)[1])
           val_id == sfh_hash(Head(todo)[2])
           msgstr_bytes == encode_utf8(Head(todo)[2])
           length == Len(msgstr_bytes)
           padded == padded_length(length)
       IN  /\ ~skip_pair(key_id, val_id)
           /\ disk' = [disk EXCEPT !.bytes =
                          @ \o msgstr_bytes
                            \o (IF padded > length THEN zeros(padded - length)
                                ELSE <<>>)]
           /\ trace' = Append(trace, "write")
           /\ lmo_entries' =
                  Append(lmo_entries, LMOEntry(key_id, val_id, offset, length))
           /\ offset' = offset + padded
    /\ todo' = Tail(todo)
    /\ UNCHANGED pc
    /\ WriteIdle

\* the duplicate scan finds a key twice: sys.exit(1); leaving the with
\* block closes the file, which stays as it is
DuplicateExit ==
    /\ pc = "first_pass"
    /\ todo = <<>>
    /\ has_duplicate(lmo_entries)
    /\ trace' = Append(trace, "close")
    /\ pc' = "write_exit_1"
    /\ UNCHANGED <<disk, todo, lmo_entries, offset>>
    /\ WriteIdle

\* second pass: the entries are sorted and written
WriteIndex ==
    /\ pc = "first_pass"
    /\ todo = <<>>
    /\ ~has_duplicate(lmo_entries)
    /\ lmo_entries' = sort_by_key(lmo_entries)
    /\ disk' = [disk EXCEPT !.bytes = @ \o index_bytes(lmo_entries')]
    /\ trace' = IF lmo_entries = <<>> THEN trace ELSE Append(trace, "write")
    /\ pc' = "second_pass_done"
    /\ UNCHANGED <<todo, offset>>
    /\ WriteIdle

\* if offset > 0: the offset is written, the file flushed and synced
WriteTrailer ==
    /\ pc = "second_pass_done"
    /\ offset > 0
    /\ disk' = [disk EXCEPT !.bytes = @ \o pack_u32(PyInt(offset))]
    /\ trace' = trace \o <<"write", "flush", "fsync", "close">>
    /\ pc' = "write_returned"
    /\ UNCHANGED <<todo, lmo_entries, offset>>
    /\ WriteIdle

\* offset is 0: the with block ends and the function returns
WriteNoTrailer ==
    /\ pc = "second_pass_done"
    /\ ~(offset > 0)
    /\ trace' = Append(trace, "close")
    /\ pc' = "write_returned"
    /\ UNCHANGED <<disk, todo, lmo_entries, offset>>
    /\ WriteIdle

----------------------------------------------------------------------------
(* Specifications *)

NextHash == HashCall

NextText ==
    \/ ExtractCall
    \/ ParseSplit
    \/ ParseBlock
    \/ ParseSkipLine
    \/ ParseMsgidLine
    \/ ParseMsgstrLine
    \/ ParseContinuationLine
    \/ ParseOtherLine
    \/ ParseEndBlock
    \/ ParseReturn

NextWrite ==
    \/ WriteNoEntries
    \/ WriteOpen
    \/ FirstPassSkip
    \/ FirstPassWrite
    \/ DuplicateExit
    \/ WriteIndex
    \/ WriteTrailer
    \/ WriteNoTrailer

Next == NextHash \/ NextText \/ NextWrite

\* one call of any of the four functions
Spec == Init /\ [][Next]_vars

\* one call of sfh_hash
SpecHash == InitHash /\ [][NextHash]_vars

\* one call of extract_string or of parse_po_file
SpecText == (InitExtract \/ InitParse) /\ [][NextText]_vars

\* one call of write_lmo_file
SpecWrite == InitWrite /\ [][NextWrite]_vars

----------------------------------------------------------------------------
(* The reference hash: SuperFastHash on 32-bit words.  A word is a function *)
(* from bit positions 0..31 to {0, 1}; every step is reduced modulo 2^32.   *)

Bit == 0..31

\* the word of a number 0 <= n < 2^16
Word(n) == [k \in Bit |-> IF k < 16 THEN (n \div 2^k) % 2 ELSE 0]

\* the word of a byte read as a signed 8-bit number, sign-extended
SignedByteWord(b) ==
    [k \in Bit |-> IF k < 8 THEN (b \div 2^k) % 2 ELSE (IF b >= 128 THEN 1 ELSE 0)]

WordXor(a, b) == [k \in Bit |-> (a[k] + b[k]) % 2]

WordShl(a, n) == [k \in Bit |-> IF k >= n THEN a[k - n] ELSE 0]

WordShr(a, n) == [k \in Bit |-> IF k + n <= 31 THEN a[k + n] ELSE 0]

\* the carries of a + b: c[k] is the carry into bit k
RECURSIVE WordCarries(_, _, _, _)
WordCarries(a, b, k, c) ==
    IF k > 31 THEN <<>>
    ELSE <<c>> \o WordCarries(a, b, k + 1, (a[k] + b[k] + c) \div 2)

WordAdd(a, b) ==
    LET c == WordCarries(a, b, 0, 0)
    IN  [k \in Bit |-> (a[k] + b[k] + c[k + 1]) % 2]

\* the 16 bits of a word from bit `from` on, as a number
RECURSIVE WordHalf(_, _, _)
WordHalf(a, from, n) ==
    IF n = 0 THEN 0 ELSE a[from] + 2 * WordHalf(a, from + 1, n - 1)

\* the word as the limbs of the Python int
WordLimbs(a) == <<WordHalf(a, 0, 16), WordHalf(a, 16, 16), 0, 0>>

\* a little-endian 16-bit read at byte i (from 1)
RefGet16(d, i) == Word(d[i] + 256 * d[i + 1])

RECURSIVE RefRounds(_, _, _)
RefRounds(d, h, i) ==
    IF Len(d) - i + 1 >= 4 THEN
        LET h1 == WordAdd(h, RefGet16(d, i))
            tmp == WordXor(WordShl(RefGet16(d, i + 2), 11), h1)
            h2 == WordXor(WordShl(h1, 16), tmp)
        IN  RefRounds(d, WordAdd(h2, WordShr(h2, 11)), i + 4)
    ELSE
        LET rem == Len(d) - i + 1
        IN  IF rem = 3 THEN
                LET h1 == WordAdd(h, RefGet16(d, i))
                    h2 == WordXor(h1, WordShl(h1, 16))
                    h3 == WordXor(h2, WordShl(SignedByteWord(d[i + 2]), 18))
                IN  WordAdd(h3, WordShr(h3, 11))
            ELSE IF rem = 2 THEN
                LET h1 == WordAdd(h, RefGet16(d, i))
                    h2 == WordXor(h1, WordShl(h1, 11))
                IN  WordAdd(h2, WordShr(h2, 17))
            ELSE IF rem = 1 THEN
                LET h1 == WordAdd(h, SignedByteWord(d[i]))
                    h2 == WordXor(h1, WordShl(h1, 10))
                IN  WordAdd(h2, WordShr(h2, 1))
            ELSE h

RefAvalanche(h) ==
    LET h1 == WordXor(h, WordShl(h, 3))
        h2 == WordAdd(h1, WordShr(h1, 5))
        h3 == WordXor(h2, WordShl(h2, 4))
        h4 == WordAdd(h3, WordShr(h3, 17))
        h5 == WordXor(h4, WordShl(h4, 25))
    IN  WordAdd(h5, WordShr(h5, 6))

RefHash(d) ==
    IF d = <<>> THEN Word(0)
    ELSE RefAvalanche(RefRounds(d, Word(Len(d)), 1))

IsU32(x) ==
    /\ x[1] \in 0..(LimbBase - 1) /\ x[2] \in 0..(LimbBase - 1)
    /\ x[3] = 0 /\ x[4] = 0

\* C7: for every input, sfh_hash returns a value in 0..2^32-1 equal to the
\* reference hash, in which every step is reduced modulo 2^32 and the last
\* byte of a 1-byte or 3-byte remainder is sign-extended; the hash of the
\* empty string is 0.
C7_HashMatchesReference ==
    pc = "hash_done" =>
        /\ IsU32(hash_val)
        /\ hash_val = WordLimbs(RefHash(encode_utf8(data)))
        /\ (data = <<>> => hash_val = PyInt(0))

\* the unmasked hash_val + val1 of the third round of CarryInput
CarrySum ==
    LET d == encode_utf8(CarryInput)
        m == sfh_main_loop(SubSeq(d, 1, 8), PyInt(Len(d)), 0, 8)
    IN  PyAdd(m.h, get16(d, 8))

\* a hash has been returned for inputs with a 1-byte and a 3-byte remainder
\* ending in a byte >= 128, and for the input whose unmasked sum needs 33 bits
C7_Witness ==
    /\ pc = "hash_done"
    /\ data = CarryInput
    /\ CarrySum[3] > 0
    /\ \E s \in HashInputs :
          LET d == encode_utf8(s)
          IN  Len(d) % 4 = 1 /\ d[Len(d)] >= 128
              /\ sfh_hash(s) = WordLimbs(RefHash(d))
    /\ \E s \in HashInputs :
          LET d == encode_utf8(s)
          IN  Len(d) % 4 = 3 /\ d[Len(d)] >= 128
              /\ sfh_hash(s) = WordLimbs(RefHash(d))

----------------------------------------------------------------------------
(* The quoted string of a line, stated by positions *)

\* the number of backslashes that end just before position j of s
RECURSIVE BackslashRun(_, _)
BackslashRun(s, j) ==
    IF j > 1 /\ s[j - 1] = BACKSLASH THEN 1 + BackslashRun(s, j - 1) ELSE 0

\* position j of s follows an escaping backslash
Escaped(s, j) == BackslashRun(s, j) % 2 = 1

\* the positions of s holding an unescaped double quote
ClosingQuotes(s) == {j \in 1..Len(s) : s[j] = QUOTE /\ ~Escaped(s, j)}

RefUnescape(c) ==
    CASE c = CH_n -> LF
      [] c = CH_t -> TAB
      [] c = CH_r -> CR
      [] OTHER -> c

\* s with every escape replaced by its character
RECURSIVE RefDecode(_, _)
RefDecode(s, j) ==
    IF j > Len(s) THEN <<>>
    ELSE (IF Escaped(s, j) THEN <<RefUnescape(s[j])>>
          ELSE IF s[j] = BACKSLASH THEN <<>>
          ELSE <<s[j]>>) \o RefDecode(s, j + 1)

HasQuote(ln) == \E j \in 1..Len(ln) : ln[j] = QUOTE

\* what follows the first double quote of ln
AfterFirstQuote(ln) ==
    LET q == CHOOSE j \in 1..Len(ln) :
                 ln[j] = QUOTE /\ \A k \in 1..(j - 1) : ln[k] # QUOTE
    IN  SubSeq(ln, q + 1, Len(ln))

\* the line ends while an escape is pending
EndsInEscape(ln) ==
    /\ HasQuote(ln)
    /\ ClosingQuotes(AfterFirstQuote(ln)) = {}
    /\ Escaped(AfterFirstQuote(ln), Len(AfterFirstQuote(ln)) + 1)

RefExtract(ln) ==
    IF ~HasQuote(ln) \/ EndsInEscape(ln) THEN None
    ELSE
        LET body == AfterFirstQuote(ln)
            close == ClosingQuotes(body)
            upto == IF close = {} THEN Len(body)
                    ELSE (CHOOSE j \in close : \A k \in close : j <= k) - 1
        IN  Some(RefDecode(SubSeq(body, 1, upto), 1))

----------------------------------------------------------------------------
(* The pairs of a PO text, stated block by block *)

IsBlank(ln) == \A j \in 1..Len(ln) : IsSpace(ln[j])

\* the maximal runs of lines that are not blank, in order
RECURSIVE RefBlocks(_, _)
RefBlocks(lns, cur) ==
    IF lns = <<>> THEN (IF cur = <<>> THEN <<>> ELSE <<cur>>)
    ELSE IF IsBlank(Head(lns)) THEN
        (IF cur = <<>> THEN <<>> ELSE <<cur>>) \o RefBlocks(Tail(lns), <<>>)
    ELSE RefBlocks(Tail(lns), Append(cur, Head(lns)))

\* the part of a line the quoted string is taken from, "none" for a line
\* that changes nothing
LineKind(ln, sel) ==
    IF ln = <<>> \/ Head(ln) = HASH THEN "none"
    ELSE IF startswith(ln, KW_MSGID) THEN "msgid"
    ELSE IF startswith(ln, KW_MSGSTR) THEN "msgstr"
    ELSE IF Head(ln) = QUOTE /\ sel # "none" THEN "continuation"
    ELSE "none"

LineText(ln, kind) ==
    IF kind = "msgid" THEN SubSeq(ln, Len(KW_MSGID) + 1, Len(ln))
    ELSE IF kind = "msgstr" THEN SubSeq(ln, Len(KW_MSGSTR) + 1, Len(ln))
    ELSE ln

\* the fields of a block after its lines are scanned
RECURSIVE RefScan(_, _)
RefScan(lns, st) ==
    IF lns = <<>> THEN st
    ELSE
        LET ln == strip(Head(lns))
            kind == LineKind(ln, st.sel)
            ex == RefExtract(LineText(ln, kind))
            nxt ==
                IF kind = "msgid" THEN
                    [id |-> IF ex.some THEN ex.val ELSE st.id,
                     str |-> st.str, sel |-> "msgid"]
                ELSE IF kind = "msgstr" THEN
                    [id |-> st.id,
                     str |-> IF ex.some THEN ex.val ELSE st.str,
                     sel |-> "msgstr"]
                ELSE IF kind = "continuation" /\ ex.some THEN
                    (IF st.sel = "msgid"
                     THEN [st EXCEPT !.id = @ \o ex.val]
                     ELSE [st EXCEPT !.str = @ \o ex.val])
                ELSE st
        IN  RefScan(Tail(lns), nxt)

RefFields(block) == RefScan(block, [id |-> <<>>, str |-> <<>>, sel |-> "none"])

RECURSIVE RefPairs(_)
RefPairs(bs) ==
    IF bs = <<>> THEN <<>>
    ELSE
        LET f == RefFields(Head(bs))
        IN  (IF f.id # <<>> /\ f.str # <<>> THEN <<<<f.id, f.str>>>> ELSE <<>>)
            \o RefPairs(Tail(bs))

RefParse(text) == RefPairs(RefBlocks(split_lines(text, <<>>), <<>>))

\* C9: parse_po_file returns at most one pair per blank-line-separated block,
\* in block order; a block contributes its pair if and only if both fields
\* accumulated over its lines are non-empty; no returned pair has an empty
\* msgid or msgstr.
C9_ParsePairsPerBlock ==
    pc = "parse_done" =>
        /\ entries = RefParse(content)
        /\ Len(entries) <= Len(RefBlocks(split_lines(content, <<>>), <<>>))
        /\ \A k \in 1..Len(entries) :
              entries[k][1] # <<>> /\ entries[k][2] # <<>>

\* two different pairs were returned, from two blocks
C9_Witness ==
    /\ pc = "parse_done"
    /\ Len(entries) = 2
    /\ entries[1] # entries[2]

\* a text with a block that is dropped because one field stayed empty
C9_WitnessDropped ==
    /\ pc = "parse_done"
    /\ Len(entries) < Len(RefBlocks(split_lines(content, <<>>), <<>>))

\* the current line is handed to extract_string and yields no extraction
NoExtractionLine ==
    /\ pc = "parse_line"
    /\ lines # <<>>
    /\ LET ln == strip(Head(lines))
           kind == LineKind(ln, IF in_msgid THEN "msgid"
                                ELSE IF in_msgstr THEN "msgstr" ELSE "none")
       IN  kind # "none" /\ ~RefExtract(LineText(ln, kind)).some

\* C10: extract_string returns the characters between the first double quote
\* and the first unescaped double quote after it (or the end of the line),
\* with every escape replaced by its character; it returns no extraction
\* exactly when the line has no double quote or ends while an escape is
\* pending; in parse_po_file such a line leaves both accumulated strings
\* unchanged and the scan goes on with the next line.
C10_ExtractString ==
    /\ [](pc = "extract_done" =>
            /\ extracted = RefExtract(line)
            /\ (~extracted.some <=> (~HasQuote(line) \/ EndsInEscape(line))))
    /\ [][NoExtractionLine =>
            /\ msgid' = msgid /\ msgstr' = msgstr
            /\ pc' = "parse_line" /\ lines' = Tail(lines)
            /\ blocks' = blocks /\ entries' = entries]_vars

\* a line with a quote and a pending escape was given to extract_string
C10_Witness ==
    /\ pc = "extract_done"
    /\ HasQuote(line)
    /\ EndsInEscape(line)
    /\ ~extracted.some

\* the parser has scanned a msgid line without extraction and gone on to
\* return a pair of the next block
C10_WitnessParse ==
    /\ pc = "parse_done"
    /\ \E ln \in {KW_MSGID \o <<QUOTE, 122, BACKSLASH>>} :
          startswith(content, ln)
    /\ entries # <<>>

----------------------------------------------------------------------------
(* The LMO file, read back from the bytes on disk *)

\* the strings of the pair universe and their hashes
WriteStrings == {p[1] : p \in PairUniverse} \cup {p[2] : p \in PairUniverse}

HashTable == [s \in WriteStrings |-> sfh_hash(s)]

HashOf(s) == HashTable[s]

\* the pairs the writer keeps: hash(msgid) # hash(msgstr)
Retained(ps) == SelectSeq(ps, LAMBDA p : HashOf(p[1]) # HashOf(p[2]))

ByteLen(s) == Len(encode_utf8(s))

\* n rounded up to a multiple of 4
RoundUp4(n) == 4 * ((n + 3) \div 4)

RECURSIVE PaddedSum(_)
PaddedSum(ps) ==
    IF ps = <<>> THEN 0
    ELSE RoundUp4(ByteLen(Head(ps)[2])) + PaddedSum(Tail(ps))

RECURSIVE UnpaddedSum(_)
UnpaddedSum(ps) ==
    IF ps = <<>> THEN 0 ELSE ByteLen(Head(ps)[2]) + UnpaddedSum(Tail(ps))

\* the big-endian 32-bit field in bytes pos+1..pos+4, as limbs
FieldAt(bytes, pos) ==
    <<256 * bytes[pos + 3] + bytes[pos + 4],
      256 * bytes[pos + 1] + bytes[pos + 2], 0, 0>>

\* a value below 2^31 as a number
Small(x) == x[1] + LimbBase * x[2]

\* write_lmo_file has returned and left a file
FileWritten == pc = "write_returned" /\ disk.exists

\* write_lmo_file has ended, by return or by sys.exit(1)
WriteEnded == pc \in {"write_returned", "write_exit_1"}

\* the size of the blob and the number of index records the pair list asks for
BlobSize == PaddedSum(Retained(entries))

IndexCount == Len(Retained(entries))

TrailerSize == IF BlobSize > 0 THEN 4 ELSE 0

\* the file is a blob of BlobSize bytes, IndexCount records of 16 bytes and
\* the trailing field, if any
LayoutOk == Len(disk.bytes) = BlobSize + 16 * IndexCount + TrailerSize

\* the k-th index record of the file, in file order
FileRecord(k) ==
    LET at == BlobSize + 16 * (k - 1)
    IN  [key_hash |-> FieldAt(disk.bytes, at),
         val_hash |-> FieldAt(disk.bytes, at + 4),
         offset |-> FieldAt(disk.bytes, at + 8),
         length |-> FieldAt(disk.bytes, at + 12)]

\* two retained pairs with distinct msgid and the same key_hash
HasCollision(ps) ==
    \E k, l \in 1..Len(Retained(ps)) :
        /\ Retained(ps)[k][1] # Retained(ps)[l][1]
        /\ HashOf(Retained(ps)[k][1]) = HashOf(Retained(ps)[l][1])

\* C1: a pair list with two retained pairs of distinct msgid and equal
\* key_hash makes write_lmo_file fail, and once it has ended no file exists
\* at output_path.
C1_CollisionLeavesNoFile ==
    (WriteEnded /\ HasCollision(entries)) =>
        (pc = "write_exit_1" /\ ~disk.exists)

\* C2: after a call with zero eligible entries no file exists at
\* output_path.
C2_NoEligibleNoFile ==
    (WriteEnded /\ Retained(entries) = <<>>) => ~disk.exists

\* the trace holds a flush and an fsync with no write after them
SyncedAfterLastWrite ==
    \E k \in 2..Len(trace) :
        /\ trace[k - 1] = "flush" /\ trace[k] = "fsync"
        /\ \A j \in (k + 1)..Len(trace) : trace[j] # "write"

\* C3: every call that opens the output file and returns has flushed and
\* synced it after the last write, also when the blob is empty.
C3_SyncBeforeReturn ==
    (pc = "write_returned" /\ Len(trace) > 0 /\ trace[1] = "open") =>
        SyncedAfterLastWrite

\* C4: the index records, in file order, are non-decreasing in key_hash and
\* no two of them share a key_hash.
C4_IndexSorted ==
    FileWritten =>
        /\ LayoutOk
        /\ \A k, l \in 1..IndexCount :
              k < l => U32Less(FileRecord(k).key_hash, FileRecord(l).key_hash)

\* a file was written whose records are not in the order of the input
C4_Witness ==
    /\ FileWritten
    /\ \E k, l \in 1..IndexCount :
          k < l /\ U32Less(HashOf(Retained(entries)[l][1]),
                           HashOf(Retained(entries)[k][1]))

\* C5: the trailing field equals the sum of the padded lengths of the
\* retained entries, which is the number of blob bytes before the index, and
\* it is written if and only if that sum is greater than 0.
C5_TrailerIsBlobSize ==
    FileWritten =>
        /\ offset = BlobSize
        /\ LayoutOk
        /\ BlobSize > 0 =>
              FieldAt(disk.bytes, Len(disk.bytes) - 4) = PyInt(BlobSize)
        /\ BlobSize = 0 => Len(disk.bytes) = 16 * IndexCount

\* a file with a trailing field, two records and a padded string
C5_Witness ==
    /\ FileWritten
    /\ IndexCount >= 2
    /\ BlobSize > UnpaddedSum(Retained(entries))
    /\ FieldAt(disk.bytes, Len(disk.bytes) - 4) = PyInt(BlobSize)

\* the pairs the first pass has gone through
Processed == SubSeq(entries, 1, Len(entries) - Len(todo))

\* C6: a pair with hash(msgid) = hash(msgstr) adds no blob bytes and no index
\* record and does not advance the offset; the file has one index record per
\* pair with hash(msgid) # hash(msgstr), none of them with key_hash = val_hash.
C6_SameHashSkipped ==
    /\ pc = "first_pass" =>
          /\ Len(lmo_entries) = Len(Retained(Processed))
          /\ offset = PaddedSum(Retained(Processed))
          /\ Len(disk.bytes) = PaddedSum(Retained(Processed))
    /\ FileWritten =>
          /\ LayoutOk
          /\ \A k \in 1..IndexCount :
                FileRecord(k).key_hash # FileRecord(k).val_hash

\* a file was written from a list with a kept pair and a skipped pair whose
\* msgid and msgstr differ
C6_Witness ==
    /\ FileWritten
    /\ IndexCount >= 1
    /\ \E k \in 1..Len(entries) :
          /\ entries[k][1] # entries[k][2]
          /\ HashOf(entries[k][1]) = HashOf(entries[k][2])

\* C8: for every retained pair, in input order: the offset of its record is
\* the sum of the padded lengths of the retained pairs before it, a multiple
\* of 4; its length is the byte length of msgstr; the blob holds the bytes of
\* msgstr there, followed by zero bytes up to the next multiple of 4; the
\* byte ranges of two records do not overlap.
C8_OffsetsAndLengths ==
    FileWritten =>
        /\ LayoutOk
        /\ \A k \in 1..IndexCount :
              LET p == Retained(entries)[k]
                  off == PaddedSum(SubSeq(Retained(entries), 1, k - 1))
                  len == ByteLen(p[2])
              IN  /\ off % 4 = 0
                  /\ \E j \in 1..IndexCount :
                        FileRecord(j) = [key_hash |-> HashOf(p[1]),
                                         val_hash |-> HashOf(p[2]),
                                         offset |-> PyInt(off),
                                         length |-> PyInt(len)]
                  /\ SubSeq(disk.bytes, off + 1, off + len) = encode_utf8(p[2])
                  /\ \A j \in (off + len + 1)..(off + RoundUp4(len)) :
                        disk.bytes[j] = 0
        /\ \A j, k \in 1..IndexCount :
              j # k =>
                  \/ Small(FileRecord(j).offset) + Small(FileRecord(j).length)
                         <= Small(FileRecord(k).offset)
                  \/ Small(FileRecord(k).offset) + Small(FileRecord(k).length)
                         <= Small(FileRecord(j).offset)

\* a file with three records, the first string of the input padded
C8_Witness ==
    /\ FileWritten
    /\ IndexCount = 3
    /\ ByteLen(Retained(entries)[1][2]) % 4 # 0
    /\ ByteLen(Retained(entries)[2][2]) > 0

====
